---- MODULE Spec2Model ----
(* PagedVector<T, PageSize> (llvm/ADT/PagedVector.h): a vector whose pages  *)
(* are allocated and value-constructed on the first access to one of their *)
(* elements, together with the allocator it is bound to and the iterator   *)
(* over its materialised elements.                                         *)
EXTENDS Integers, Sequences, FiniteSets, TLC

(***************************************************************************)
(* Bounds of the model.                                                    *)
(***************************************************************************)
PageSize == 2
MaxSize == 4
MaxVal == 1

MaxPages == (MaxSize + PageSize - 1) \div PageSize
Values == 0..MaxVal
Blocks == 1..(MaxPages + 1)
AllocNames == {"own", "ext"}

(***************************************************************************)
(* Program constants.                                                      *)
(***************************************************************************)
InvalidPage == 0
DefaultT == 0
ForeignT == MaxVal
NoValue == DefaultT - 1

VARIABLES
  pc,              \* "live" between construction and destruction, else "dead"
  reused,          \* history: an earlier container used the caller's
                   \*   allocator and was destroyed, and none with an
                   \*   allocator of its own was made since
  Size,
  PageToDataPtrs,  \* sequence of block addresses, InvalidPage when absent
  Allocator,       \* PointerIntPair: [ptr |-> allocator, int |-> owned]
  alloc,           \* per allocator: is it alive, and its live blocks
  mem,             \* contents of every block, <<>> when not constructed
  foreign,         \* blocks another user of the borrowed allocator holds
  iter,            \* the MaterialisedIterator of the running traversal
  visited,         \* indices the running traversal stopped at, in order
  ret,             \* history: the access just made was at tracked, and for
                   \*   a read the value operator[] returned for it; in a
                   \*   traversal, the index and the value of the last *MI
  last,            \* the last operation
  calls,           \* allocator and lifetime calls made by the last operation
  tracked,         \* history: the index the history variables follow
  ever,            \* history: tracked was written at some point
  expect,          \* history: last value written at tracked with no
                   \*   resize to a size <= tracked and no clear since
  stale,           \* history: last value written at tracked since its page
                   \*   was last released
  target,          \* history: argument of the last resize, 0 when none
                   \*   since construction or clear
  shrunk,          \* history: whether a shrink released the materialised page
                   \*   of tracked, and the value tracked then held
  resized,         \* history: which case of resize the operation just made
                   \*   was, "" when it was not a resize
  thr              \* the threads inside operator[] with no synchronisation:
                   \*   their positions and locals, and the order of their
                   \*   stores to the page table

cvars == <<Size, PageToDataPtrs, Allocator, alloc, mem>>
hvars == <<tracked, ever, expect, stale, shrunk, target>>
vars == <<pc, reused, Size, PageToDataPtrs, Allocator, alloc, mem, foreign, iter,
          visited, ret, last, calls, tracked, ever, expect, stale, shrunk, target,
          resized, thr>>

(***************************************************************************)
(* The container and the heap as one value, threaded through the           *)
(* operations.                                                             *)
(***************************************************************************)
Cur == [Size |-> Size, PT |-> PageToDataPtrs, A |-> Allocator,
        alloc |-> alloc, mem |-> mem, log |-> <<>>]

Commit(s) ==
  /\ Size' = s.Size
  /\ PageToDataPtrs' = s.PT
  /\ Allocator' = s.A
  /\ alloc' = s.alloc
  /\ mem' = s.mem
  /\ calls' = s.log

Min(S) == CHOOSE x \in S : \A y \in S : x <= y

PageOf(Index) == Index \div PageSize

(***************************************************************************)
(* The allocator: Allocate, Deallocate, Reset, delete.                     *)
(***************************************************************************)
FreeBlocks(s) == Blocks \ UNION {s.alloc[a].live : a \in AllocNames}

Allocate(s) == Min(FreeBlocks(s))

AfterAllocate(s, b) ==
  [s EXCEPT !.alloc[s.A.ptr].live = @ \cup {b},
            !.log = Append(@, <<"Allocate", s.A.ptr, b>>)]

Deallocate(s, b) ==
  [s EXCEPT !.alloc[s.A.ptr].live = @ \ {b},
            !.mem[b] = <<>>,
            !.log = Append(@, <<"Deallocate", s.A.ptr, b>>)]

Reset(s) ==
  [s EXCEPT !.alloc[s.A.ptr].live = {},
            !.mem = [b \in Blocks |->
                       IF b \in s.alloc[s.A.ptr].live THEN <<>> ELSE s.mem[b]],
            !.log = Append(@, <<"Reset", s.A.ptr, 0>>)]

DeleteAllocator(s) ==
  [s EXCEPT !.alloc[s.A.ptr] = [alive |-> FALSE, live |-> {}],
            !.mem = [b \in Blocks |->
                       IF b \in s.alloc[s.A.ptr].live THEN <<>> ELSE s.mem[b]],
            !.log = Append(@, <<"delete", s.A.ptr, 0>>)]

(***************************************************************************)
(* Element lifetime.                                                       *)
(***************************************************************************)
\* Mutant: the page is left with whatever the raw storage held.
ValueConstructN_Garbage == [k \in 1..PageSize |-> MaxVal]

ValueConstructN == [k \in 1..PageSize |-> DefaultT]

\* Mutant: the construction runs over every block that holds elements.
UninitializedValueConstructN_WholeHeap(s, b) ==
  [s EXCEPT !.mem = [c \in Blocks |->
                       IF c = b \/ s.mem[c] # <<>> THEN ValueConstructN
                       ELSE s.mem[c]],
            !.log = Append(@, <<"construct", s.A.ptr, b>>)]

UninitializedValueConstructN(s, b) ==
  [s EXCEPT !.mem[b] = ValueConstructN,
            !.log = Append(@, <<"construct", s.A.ptr, b>>)]

DestroyN(s, b) ==
  [s EXCEPT !.log = Append(@, <<"destroy", s.A.ptr, b>>)]

(***************************************************************************)
(* capacity(), size(), empty()                                             *)
(***************************************************************************)
Capacity(pt) == Len(pt) * PageSize

capacity == Capacity(PageToDataPtrs)

size == Size

empty == Size = 0

(***************************************************************************)
(* operator[]                                                              *)
(***************************************************************************)
PageIsInvalid(PagePtr) == PagePtr = InvalidPage

\* Mutant: a page is allocated and constructed at every access.
Subscript_AlwaysAllocates(s, Index) ==
  LET NewPagePtr == Allocate(s)
      s1 == AfterAllocate(s, NewPagePtr)
      s2 == UninitializedValueConstructN(s1, NewPagePtr)
  IN  [s2 EXCEPT !.PT[PageOf(Index) + 1] = NewPagePtr]

\* operator[]: its second assertion, on the slot of the page table it reads
SubscriptAssert(pt, Index) == PageOf(Index) < Len(pt)

Subscript(s, Index) ==
  LET slot == PageOf(Index) + 1
  IN  IF PageIsInvalid(s.PT[slot])
      THEN LET NewPagePtr == Allocate(s)
               s1 == AfterAllocate(s, NewPagePtr)
               s2 == UninitializedValueConstructN(s1, NewPagePtr)
           IN  [s2 EXCEPT !.PT[slot] = NewPagePtr]
      ELSE s

ElementOf(s, Index) == s.mem[s.PT[PageOf(Index) + 1]][(Index % PageSize) + 1]

(***************************************************************************)
(* clear()                                                                 *)
(***************************************************************************)
\* Mutant: the owned allocator is not reset.
ClearResets_Never(A) == FALSE

\* Mutant: the allocator is reset whoever owns it.
ClearResets_Always(A) == TRUE

\* Mutant: the pages of a borrowed allocator are not handed back.
ClearDeallocates_Never(A) == FALSE

ClearDeallocates(A) == ~A.int

ClearResets(A) == A.int = TRUE

RECURSIVE ClearLoop(_, _)
ClearLoop(s, I) ==
  IF I > Len(s.PT) THEN s
  ELSE LET Page == s.PT[I]
       IN  IF PageIsInvalid(Page) THEN ClearLoop(s, I + 1)
           ELSE LET s1 == DestroyN(s, Page)
                    s2 == IF ClearDeallocates(s1.A) THEN Deallocate(s1, Page)
                          ELSE s1
                IN  ClearLoop(s2, I + 1)

\* Mutant: the page table is not emptied.
ClearPageTable_Kept(pt) == pt

ClearPageTable(pt) == <<>>

Clear(s) ==
  LET s0 == [s EXCEPT !.Size = 0]
      s1 == ClearLoop(s0, 1)
      s2 == IF ClearResets(s1.A) THEN Reset(s1) ELSE s1
  IN  [s2 EXCEPT !.PT = ClearPageTable(s2.PT)]

(***************************************************************************)
(* resize(NewSize)                                                         *)
(***************************************************************************)
\* Mutant: the last needed page is taken one too low.
NewLastPageOf_Low(NewSize) == NewSize \div PageSize - 1

\* Mutant: the last needed page is taken from NewSize, not NewSize - 1.
NewLastPageOf_High(NewSize) == NewSize \div PageSize

NewLastPageOf(NewSize) == (NewSize - 1) \div PageSize

\* Mutant: the remainder page is forgotten.
PagesFor_NoRemainder(Sz) == Sz \div PageSize

\* Mutant: one more page is taken whatever the remainder.
PagesFor_ExtraPage(Sz) == Sz \div PageSize + 1

PagesFor(Sz) == IF Sz % PageSize # 0 THEN Sz \div PageSize + 1
                ELSE Sz \div PageSize

\* SmallVector::resize(N, Fill): truncate, or append copies of Fill.
\* Mutant: every slot of the resized table takes the fill value.
VecResize_FillAll(pt, N, Fill) == [k \in 1..N |-> Fill]

VecResize(pt, N, Fill) ==
  [k \in 1..N |-> IF k <= Len(pt) THEN pt[k] ELSE Fill]

\* The loop of the shrink branch; I and N count slots from 0 as the code does.
RECURSIVE ShrinkLoop(_, _, _)
ShrinkLoop(s, I, N) ==
  IF I >= N THEN s
  ELSE LET PagePtr == s.PT[I + 1]
       IN  IF PageIsInvalid(PagePtr) THEN ShrinkLoop(s, I + 1, N)
           ELSE LET s1 == DestroyN(s, PagePtr)
                    s2 == Deallocate(s1, PagePtr)
                    s3 == [s2 EXCEPT !.PT[I + 1] = InvalidPage]
                IN  ShrinkLoop(s3, I + 1, N)

\* Mutant: the elements past NewSize in the last retained page are
\* re-initialised.
Shrink_ResetsTail(s, NewSize) ==
  LET NewLastPage == (NewSize - 1) \div PageSize
      s1 == ShrinkLoop(s, NewLastPage + 1, Len(s.PT))
      s2 == [s1 EXCEPT !.PT = VecResize(s1.PT, NewLastPage + 1, InvalidPage)]
      b == s2.PT[NewLastPage + 1]
  IN  IF b = InvalidPage THEN s2
      ELSE [s2 EXCEPT !.mem[b] =
              [k \in 1..PageSize |->
                 IF NewLastPage * PageSize + k - 1 >= NewSize THEN DefaultT
                 ELSE s2.mem[b][k]]]

\* Mutant: the page table is not truncated after the pages are released.
Shrink_NoTruncate(s, NewSize) ==
  ShrinkLoop(s, NewLastPageOf(NewSize) + 1, Len(s.PT))

\* Mutant: the release starts at the last needed page, not after it.
Shrink_ReleasesLastPage(s, NewSize) ==
  LET NewLastPage == NewLastPageOf(NewSize)
      s1 == ShrinkLoop(s, NewLastPage, Len(s.PT))
  IN  [s1 EXCEPT !.PT = VecResize(s1.PT, NewLastPage + 1, InvalidPage)]

Shrink(s, NewSize) ==
  LET NewLastPage == NewLastPageOf(NewSize)
      s1 == ShrinkLoop(s, NewLastPage + 1, Len(s.PT))
  IN  [s1 EXCEPT !.PT = VecResize(s1.PT, NewLastPage + 1, InvalidPage)]

\* resize: the assertion made before the page table is extended
GrowAssert(s) == PagesFor(s.Size) > Len(s.PT)

\* Mutant: the page table is rebuilt from sentinels for the size at hand.
Grow_Rebuilds(s) ==
  [s EXCEPT !.PT = [k \in 1..PagesFor(s.Size) |-> InvalidPage]]

Grow(s) ==
  IF s.Size <= Capacity(s.PT) THEN s
  ELSE [s EXCEPT !.PT = VecResize(s.PT, PagesFor(s.Size), InvalidPage)]

\* Mutant: the zero size is not told apart and goes through the shrink path.
Resize_NoZeroCase(s, NewSize) ==
  LET s1 == IF NewSize < s.Size THEN Shrink(s, NewSize) ELSE s
      s2 == [s1 EXCEPT !.Size = NewSize]
  IN  Grow(s2)

Resize(s, NewSize) ==
  IF NewSize = 0 THEN Clear(s)
  ELSE LET s1 == IF NewSize < s.Size THEN Shrink(s, NewSize) ELSE s
           s2 == [s1 EXCEPT !.Size = NewSize]
       IN  Grow(s2)

(***************************************************************************)
(* Constructors and destructor.                                            *)
(***************************************************************************)
DefaultConstructed(s) ==
  [s EXCEPT !.Size = 0, !.PT = <<>>,
            !.A = [ptr |-> "own", int |-> TRUE],
            !.alloc["own"] = [alive |-> TRUE, live |-> {}],
            !.log = <<<<"new", "own", 0>>>>]

BoundTo(s) ==
  [s EXCEPT !.Size = 0, !.PT = <<>>,
            !.A = [ptr |-> "ext", int |-> FALSE]]

DestructorDeletes(A) == A.int

\* Mutant: the allocator is released before the pages are.
Destructor_DeletesFirst(s) ==
  LET s1 == IF DestructorDeletes(s.A) THEN DeleteAllocator(s) ELSE s
  IN  Clear(s1)

Destructor(s) ==
  LET s1 == Clear(s)
  IN  IF DestructorDeletes(s1.A) THEN DeleteAllocator(s1) ELSE s1

(***************************************************************************)
(* MaterialisedIterator: materialised_begin, materialised_end, operator++  *)
(***************************************************************************)
\* Mutant: when no page is found the scan returns where it stopped.
RECURSIVE BeginLoop_StepsPastSize(_, _, _)
BeginLoop_StepsPastSize(Sz, pt, ElementIdx) ==
  IF ElementIdx < Sz
  THEN IF ~PageIsInvalid(pt[PageOf(ElementIdx) + 1]) THEN ElementIdx
       ELSE BeginLoop_StepsPastSize(Sz, pt, ElementIdx + PageSize)
  ELSE ElementIdx

RECURSIVE BeginLoop(_, _, _)
BeginLoop(Sz, pt, ElementIdx) ==
  IF ElementIdx < Sz
  THEN IF ~PageIsInvalid(pt[PageOf(ElementIdx) + 1]) THEN ElementIdx
       ELSE BeginLoop(Sz, pt, ElementIdx + PageSize)
  ELSE Sz

\* Mutant: the scan for the first materialised page is left out.
MaterialisedBegin_NoScan(Sz, pt) == IF Sz = 0 THEN Sz ELSE 0

MaterialisedBegin(Sz, pt) == BeginLoop(Sz, pt, 0)

MaterialisedEnd(Sz, pt) == Sz

\* Mutant: unmaterialised pages are not skipped.
SkipLoop_NoSkip(Sz, pt, ElementIdx) == ElementIdx

RECURSIVE SkipLoop(_, _, _)
SkipLoop(Sz, pt, ElementIdx) ==
  IF ElementIdx < Sz /\ PageIsInvalid(pt[PageOf(ElementIdx) + 1])
  THEN SkipLoop(Sz, pt, ElementIdx + PageSize)
  ELSE ElementIdx

\* Mutant: an index past Size is left where the skip put it.
ClampToSize_None(Sz, ElementIdx) == ElementIdx

ClampToSize(Sz, ElementIdx) == IF ElementIdx > Sz THEN Sz ELSE ElementIdx

\* Mutant: the index is not advanced before the test of the page boundary.
PreIncrement_NoAdvance(Sz, pt, ElementIdx) ==
  IF ElementIdx % PageSize = 0
  THEN ClampToSize(Sz, SkipLoop(Sz, pt, ElementIdx))
  ELSE ElementIdx

\* The slots of the page table the loops read, whether the table has them or
\* not: a loop that reads outside the table stops there.
RECURSIVE ScanReads(_, _, _)
ScanReads(Sz, pt, ElementIdx) ==
  IF ElementIdx < Sz
  THEN LET slot == PageOf(ElementIdx)
       IN  IF slot < Len(pt) /\ PageIsInvalid(pt[slot + 1])
           THEN {slot} \cup ScanReads(Sz, pt, ElementIdx + PageSize)
           ELSE {slot}
  ELSE {}

\* materialised_begin(): the slots it reads
MaterialisedBeginReads(Sz, pt) == ScanReads(Sz, pt, 0)

\* operator++: the slots it reads
PreIncrementReads(Sz, pt, ElementIdx) ==
  IF (ElementIdx + 1) % PageSize = 0 THEN ScanReads(Sz, pt, ElementIdx + 1)
  ELSE {}

PreIncrement(Sz, pt, ElementIdx) ==
  LET Idx1 == ElementIdx + 1
  IN  IF Idx1 % PageSize = 0
      THEN ClampToSize(Sz, SkipLoop(Sz, pt, Idx1))
      ELSE Idx1

\* operator*: its two assertions
DereferenceAsserts(Sz, pt, ElementIdx) ==
  /\ ElementIdx < Sz
  /\ ~PageIsInvalid(pt[PageOf(ElementIdx) + 1])

\* operator==: the assertion made on each of the two iterators
EqualityAsserts(Sz, pt, ElementIdx) ==
  \/ ElementIdx >= Sz
  \/ /\ PageOf(ElementIdx) < Len(pt)
     /\ ~PageIsInvalid(pt[PageOf(ElementIdx) + 1])

\* operator==: its result
Equality(LHS, RHS) == LHS = RHS

\* Mutant: the offset of the index in its page is dropped.
Dereference_PageStart(s, ElementIdx) == s.mem[s.PT[PageOf(ElementIdx) + 1]][1]

\* operator*: its result
Dereference(s, ElementIdx) ==
  LET PagePtr == s.PT[PageOf(ElementIdx) + 1]
  IN  s.mem[PagePtr][(ElementIdx % PageSize) + 1]

\* std::distance(First, materialised_end()) over the iterator.
RECURSIVE Distance(_, _, _)
Distance(Sz, pt, First) ==
  IF First = MaterialisedEnd(Sz, pt) THEN 0
  ELSE 1 + Distance(Sz, pt, PreIncrement(Sz, pt, First))

MaterialisedCount(Sz, pt) == Distance(Sz, pt, MaterialisedBegin(Sz, pt))

(***************************************************************************)
(* History variables.  They are updated from the operations' arguments     *)
(* alone, never from what the operations compute.                          *)
(***************************************************************************)
TrackedPage == tracked \div PageSize

NoShrunk == [phase |-> 0, lost |-> NoValue]

SamePageAsTracked(Index) == Index \div PageSize = TrackedPage

\* shrunk.phase: 0 the page of tracked is not released; 1 the operation just
\* made is the shrink that released it; 2 it was released earlier and not
\* accessed since; 3 the access just made is the first since its release.
Aged ==
  IF shrunk.phase = 1 THEN [shrunk EXCEPT !.phase = 2]
  ELSE IF shrunk.phase = 3 THEN NoShrunk ELSE shrunk

AccessShrunk(Index) ==
  IF SamePageAsTracked(Index) /\ shrunk.phase \in {1, 2}
  THEN [shrunk EXCEPT !.phase = 3]
  ELSE Aged

\* resize(NewSize) with 0 < NewSize < Size puts the page of tracked strictly
\* beyond the last needed page.
ShrinksPastTrackedPage(NewSize) ==
  /\ 0 < NewSize
  /\ NewSize < Size
  /\ TrackedPage > (NewSize - 1) \div PageSize

TrackedPageMaterialised ==
  /\ TrackedPage < Len(PageToDataPtrs)
  /\ PageToDataPtrs[TrackedPage + 1] # InvalidPage

ResizeShrunk(NewSize) ==
  IF NewSize = 0 THEN NoShrunk
  ELSE IF ShrinksPastTrackedPage(NewSize) /\ TrackedPageMaterialised
       THEN [phase |-> 1, lost |-> stale]
       ELSE Aged

HistoryReset ==
  /\ expect' = NoValue
  /\ stale' = NoValue
  /\ shrunk' = NoShrunk
  /\ target' = 0
  /\ UNCHANGED <<tracked, ever>>

\* resize(NewSize) from the current state: the case of the argument against
\* Size and capacity() before the call
ResizeKind(NewSize) ==
  IF NewSize = 0 THEN "zero"
  ELSE IF NewSize < Size THEN "shrink"
  ELSE IF NewSize = Size THEN "same"
  ELSE IF NewSize <= capacity THEN "within"
  ELSE "beyond"

Threads == {1, 2}

\* a thread that is not inside operator[]
NoThread == [pc |-> "idle", Index |-> 0, v |-> DefaultT,
             NewPagePtr |-> InvalidPage, ref |-> InvalidPage]

NoThreads == [at |-> [t \in Threads |-> NoThread], stores |-> <<>>]

NoIter == [active |-> FALSE, idx |-> 0]

NoRet == [idx |-> NoValue, val |-> NoValue]

(***************************************************************************)
(* The operations.                                                         *)
(***************************************************************************)
\* The caller's allocator exists before the container does, and another of
\* its users holds one block of it.
ForeignBlock == Min(Blocks)

ExtOnly == [a \in AllocNames |->
              [alive |-> a = "ext",
               live |-> IF a = "ext" THEN {ForeignBlock} ELSE {}]]

\* The heap before any container exists.
NoContainer ==
  [Size |-> 0, PT |-> <<>>, A |-> [ptr |-> "ext", int |-> FALSE],
   alloc |-> ExtOnly,
   mem |-> [b \in Blocks |->
              IF b = ForeignBlock THEN [k \in 1..PageSize |-> ForeignT]
              ELSE <<>>],
   log |-> <<>>]

\* A container right after its constructor ran.
Fresh(owns) ==
  IF owns THEN DefaultConstructed(NoContainer) ELSE BoundTo(NoContainer)

Init ==
  /\ pc = "live"
  /\ reused = FALSE
  /\ foreign = {ForeignBlock}
  /\ thr = NoThreads
  /\ iter = NoIter
  /\ visited = <<>>
  /\ ret = NoRet
  /\ tracked \in 0..(MaxSize - 1)
  /\ ever = FALSE
  /\ expect = NoValue
  /\ stale = NoValue
  /\ shrunk = NoShrunk
  /\ target = 0
  /\ \E owns \in BOOLEAN :
       LET s == Fresh(owns)
       IN  /\ Size = s.Size
           /\ PageToDataPtrs = s.PT
           /\ Allocator = s.A
           /\ alloc = s.alloc
           /\ mem = s.mem
           /\ calls = s.log
           /\ resized = ""
           /\ last = IF owns THEN "PagedVector()" ELSE "PagedVector(A)"

Idle == pc = "live" /\ ~iter.active

\* PagedVector() : a second container, with an allocator of its own
ConstructOwning ==
  /\ pc = "dead"
  /\ pc' = "live"
  /\ Commit(DefaultConstructed(Cur))
  /\ last' = "PagedVector()"
  /\ ret' = NoRet
  /\ reused' = FALSE
  /\ UNCHANGED <<foreign, thr, iter, visited>>
  /\ UNCHANGED hvars
  /\ resized' = ""

\* PagedVector(BumpPtrAllocator *A) : a second container on the same allocator
ConstructBorrowing ==
  /\ pc = "dead"
  /\ pc' = "live"
  /\ Commit(BoundTo(Cur))
  /\ last' = "PagedVector(A)"
  /\ ret' = NoRet
  /\ UNCHANGED <<reused, foreign, thr, iter, visited>>
  /\ UNCHANGED hvars
  /\ resized' = ""

\* ~PagedVector()
Destroy ==
  /\ Idle
  /\ pc' = "dead"
  /\ Commit(Destructor(Cur))
  /\ last' = "~PagedVector"
  /\ resized' = ""
  /\ ret' = NoRet
  /\ HistoryReset
  /\ reused' = (reused \/ (~Allocator.int /\ calls' # <<>>))
  /\ UNCHANGED <<foreign, thr, iter, visited>>

\* V[Index] = v
Write(Index, v) ==
  /\ Idle
  /\ Index < Size
  /\ LET s == Subscript(Cur, Index)
         b == s.PT[PageOf(Index) + 1]
     IN  Commit([s EXCEPT !.mem[b][(Index % PageSize) + 1] = v])
  /\ last' = "write"
  /\ ret' = IF Index = tracked THEN [idx |-> Index, val |-> NoValue] ELSE NoRet
  /\ ever' = (ever \/ Index = tracked)
  /\ expect' = IF Index = tracked THEN v ELSE expect
  /\ stale' = IF Index = tracked THEN v ELSE stale
  /\ shrunk' = AccessShrunk(Index)
  /\ resized' = ""
  /\ UNCHANGED <<pc, reused, foreign, thr, iter, visited, tracked, target>>

\* ... = V[Index]
Read(Index) ==
  /\ Idle
  /\ Index < Size
  /\ LET s == Subscript(Cur, Index)
     IN  /\ Commit(s)
         /\ ret' = IF Index = tracked
                   THEN [idx |-> Index, val |-> ElementOf(s, Index)]
                   ELSE NoRet
  /\ last' = "read"
  /\ shrunk' = AccessShrunk(Index)
  /\ resized' = ""
  /\ UNCHANGED <<pc, reused, foreign, thr, iter, visited, tracked, ever, expect,
                 stale, target>>

\* V.resize(NewSize)
DoResize(NewSize) ==
  /\ Idle
  /\ Commit(Resize(Cur, NewSize))
  /\ last' = "resize"
  /\ ret' = NoRet
  /\ expect' = IF NewSize <= tracked THEN NoValue ELSE expect
  /\ stale' = IF NewSize = 0 \/ ShrinksPastTrackedPage(NewSize)
              THEN NoValue ELSE stale
  /\ shrunk' = ResizeShrunk(NewSize)
  /\ target' = NewSize
  /\ resized' = ResizeKind(NewSize)
  /\ UNCHANGED <<pc, reused, foreign, thr, iter, visited, tracked, ever>>

\* V.clear()
DoClear ==
  /\ Idle
  /\ Commit(Clear(Cur))
  /\ last' = "clear"
  /\ resized' = ""
  /\ ret' = NoRet
  /\ HistoryReset
  /\ UNCHANGED <<pc, reused, foreign, thr, iter, visited>>

\* auto MI = V.materialised_begin()
Begin ==
  /\ Idle
  /\ iter' = [active |-> TRUE, idx |-> MaterialisedBegin(Size, PageToDataPtrs)]
  /\ visited' = <<>>
  /\ last' = "begin"
  /\ ret' = NoRet
  /\ calls' = <<>>
  /\ UNCHANGED cvars
  /\ UNCHANGED <<pc, reused, foreign, thr>>
  /\ UNCHANGED hvars
  /\ resized' = ""

\* the body of  for (; MI != V.materialised_end(); ++MI) ... = *MI
Increment ==
  /\ iter.active
  /\ iter.idx # MaterialisedEnd(Size, PageToDataPtrs)
  /\ visited' = Append(visited, iter.idx)
  /\ ret' = [idx |-> iter.idx, val |-> Dereference(Cur, iter.idx)]
  /\ iter' = [iter EXCEPT !.idx = PreIncrement(Size, PageToDataPtrs, iter.idx)]
  /\ last' = "++"
  /\ UNCHANGED cvars
  /\ UNCHANGED <<pc, reused, foreign, thr, calls>>
  /\ UNCHANGED hvars
  /\ resized' = ""

\* the traversal reached materialised_end(); the iterator goes away
Finish ==
  /\ iter.active
  /\ iter.idx = MaterialisedEnd(Size, PageToDataPtrs)
  /\ iter' = NoIter
  /\ visited' = <<>>
  /\ last' = "end"
  /\ ret' = NoRet
  /\ UNCHANGED cvars
  /\ UNCHANGED <<pc, reused, foreign, thr, calls>>
  /\ UNCHANGED hvars
  /\ resized' = ""

Next ==
  \/ ConstructOwning
  \/ ConstructBorrowing
  \/ Destroy
  \/ \E Index \in 0..(MaxSize - 1), v \in Values : Write(Index, v)
  \/ \E Index \in 0..(MaxSize - 1) : Read(Index)
  \/ \E NewSize \in 0..MaxSize : DoResize(NewSize)
  \/ DoClear
  \/ Begin
  \/ Increment
  \/ Finish

Spec == Init /\ [][Next]_vars

(***************************************************************************)
(* Type correctness.                                                       *)
(***************************************************************************)
TypeOK ==
  /\ pc \in {"live", "dead"}
  /\ reused \in BOOLEAN
  /\ Size \in 0..MaxSize
  /\ PageToDataPtrs \in Seq(Blocks \cup {InvalidPage})
  /\ Len(PageToDataPtrs) <= MaxPages
  /\ foreign \subseteq Blocks
  /\ ret.val \in Values \cup {NoValue}
  /\ resized \in {"", "zero", "shrink", "same", "within", "beyond"}
  /\ resized # "" <=> last = "resize"

(***************************************************************************)
(* A fresh container whose resize targets never decrease.                   *)
(***************************************************************************)
NextMono ==
  \/ \E NewSize \in 0..MaxSize : target <= NewSize /\ DoResize(NewSize)
  \/ \E Index \in 0..(MaxSize - 1), v \in Values : Write(Index, v)
  \/ \E Index \in 0..(MaxSize - 1) : Read(Index)
  \/ Begin
  \/ Increment
  \/ Finish

SpecMono == Init /\ [][NextMono]_vars

\* The index the history follows plays no part in a traversal, nor in what
\* becomes of the pages: one index is enough there.
InitFixed == Init /\ tracked = 0

SpecFixed == InitFixed /\ [][Next]_vars

(***************************************************************************)
(* Two threads inside operator[] of one container, with no                 *)
(* synchronisation.  operator[] is cut where it reads or writes the page   *)
(* table: the test of the slot, the allocation and construction of the     *)
(* page, the store to the slot, and the return of the element reference,   *)
(* which the build may take from the slot again or from the pointer the    *)
(* thread just stored.  The caller then assigns through the reference.     *)
(***************************************************************************)
\* Mutant: the store leaves a slot that holds a page as it is.
StoreNewPage_KeepsFirst(s, Index, NewPagePtr) ==
  IF PageIsInvalid(s.PT[PageOf(Index) + 1])
  THEN [s EXCEPT !.PT[PageOf(Index) + 1] = NewPagePtr]
  ELSE s

\* PagePtr = NewPagePtr
StoreNewPage(s, Index, NewPagePtr) ==
  [s EXCEPT !.PT[PageOf(Index) + 1] = NewPagePtr]

\* the container the threads share: resized to MaxSize, nothing touched
InitRace ==
  /\ pc = "live"
  /\ reused = FALSE
  /\ foreign = {ForeignBlock}
  /\ thr = NoThreads
  /\ iter = NoIter
  /\ visited = <<>>
  /\ ret = NoRet
  /\ tracked = 0
  /\ ever = FALSE
  /\ expect = NoValue
  /\ stale = NoValue
  /\ shrunk = NoShrunk
  /\ target = MaxSize
  /\ resized = "beyond"
  /\ last = "resize"
  /\ \E owns \in BOOLEAN :
       LET s == Resize([Fresh(owns) EXCEPT !.log = <<>>], MaxSize)
       IN  /\ Size = s.Size
           /\ PageToDataPtrs = s.PT
           /\ Allocator = s.A
           /\ alloc = s.alloc
           /\ mem = s.mem
           /\ calls = s.log

\* what a thread step leaves alone
RaceFrame ==
  UNCHANGED <<pc, reused, foreign, iter, visited, ret, last, tracked, ever,
              expect, stale, shrunk, target, resized>>

\* the calls of the threads are logged together
Shared == [Cur EXCEPT !.log = calls]

\* T *&PagePtr = PageToDataPtrs[Index / PageSize]; if (PagePtr == InvalidPage)
Load(t, Index, v) ==
  /\ thr.at[t].pc = "idle"
  /\ Index < Size
  /\ thr' = [thr EXCEPT
               !.at[t].Index = Index,
               !.at[t].v = v,
               !.at[t].pc = IF PageIsInvalid(PageToDataPtrs[PageOf(Index) + 1])
                            THEN "allocate" ELSE "return"]
  /\ UNCHANGED cvars
  /\ UNCHANGED calls
  /\ RaceFrame

\* NewPagePtr = Allocate<T>(PageSize); uninitialized_value_construct_n(...)
AllocatePage(t) ==
  /\ thr.at[t].pc = "allocate"
  /\ LET NewPagePtr == Allocate(Shared)
         s1 == AfterAllocate(Shared, NewPagePtr)
         s2 == UninitializedValueConstructN(s1, NewPagePtr)
     IN  /\ Commit(s2)
         /\ thr' = [thr EXCEPT !.at[t].NewPagePtr = NewPagePtr,
                               !.at[t].pc = "store"]
  /\ RaceFrame

\* PagePtr = NewPagePtr
Store(t) ==
  /\ thr.at[t].pc = "store"
  /\ Commit(StoreNewPage(Shared, thr.at[t].Index, thr.at[t].NewPagePtr))
  /\ thr' = [thr EXCEPT !.at[t].pc = "return",
                        !.stores = Append(@, t)]
  /\ RaceFrame

\* return PagePtr[Index % PageSize]
Return(t) ==
  /\ thr.at[t].pc = "return"
  /\ \E Page \in {PageToDataPtrs[PageOf(thr.at[t].Index) + 1],
                   thr.at[t].NewPagePtr} \ {InvalidPage} :
       thr' = [thr EXCEPT !.at[t].ref = Page, !.at[t].pc = "assign"]
  /\ UNCHANGED cvars
  /\ UNCHANGED calls
  /\ RaceFrame

\* V[Index] = v, through the reference operator[] returned
Assign(t) ==
  /\ thr.at[t].pc = "assign"
  /\ mem' = [mem EXCEPT
               ![thr.at[t].ref][(thr.at[t].Index % PageSize) + 1] = thr.at[t].v]
  /\ thr' = [thr EXCEPT !.at[t].pc = "done"]
  /\ UNCHANGED <<Size, PageToDataPtrs, Allocator, alloc, calls>>
  /\ RaceFrame

NextRace ==
  \/ \E t \in Threads, Index \in 0..(MaxSize - 1), v \in Values :
       Load(t, Index, v)
  \/ \E t \in Threads : AllocatePage(t)
  \/ \E t \in Threads : Store(t)
  \/ \E t \in Threads : Return(t)
  \/ \E t \in Threads : Assign(t)

SpecRace == InitRace /\ [][NextRace]_vars

(***************************************************************************)
(* Vocabulary of the properties.                                           *)
(***************************************************************************)
Materialised(p) == p < Len(PageToDataPtrs) /\ PageToDataPtrs[p + 1] # InvalidPage

MaterialisedPages == {p \in 0..(MaxPages - 1) : Materialised(p)}

MatIndices == {i \in 0..(Size - 1) : Materialised(i \div PageSize)}

RECURSIVE Ascending(_)
Ascending(S) ==
  IF S = {} THEN <<>>
  ELSE LET m == CHOOSE x \in S : \A y \in S : x <= y
       IN  <<m>> \o Ascending(S \ {m})

TrackedElement == mem[PageToDataPtrs[TrackedPage + 1]][(tracked % PageSize) + 1]

\* What operator[] returns for tracked in the current state.
ReadsTracked == ElementOf(Subscript(Cur, tracked), tracked)

JustRead(i) == last = "read" /\ ret.idx = i

Called(what) == {k \in 1..Len(calls) : calls[k][1] = what}

CalledOn(what, b) == \E k \in 1..Len(calls) : calls[k][1] = what /\ calls[k][3] = b

Accessed == last \in {"read", "write"}

(***************************************************************************)
(* C1: a value written at index i is what a later operator[] at i returns,  *)
(* whatever reads and writes at other indices, grows and shrinks to a size *)
(* above i come in between.                                                *)
(***************************************************************************)
C1_WriteThenRead ==
  expect # NoValue =>
    /\ tracked < Size
    /\ ReadsTracked = expect
    /\ JustRead(tracked) => ret.val = expect

C1_Witness ==
  /\ JustRead(tracked)
  /\ expect = MaxVal
  /\ ret.val = MaxVal
  /\ Size % PageSize # 0
  /\ Cardinality(MaterialisedPages) > 1

(***************************************************************************)
(* C2: operator[] at an index below Size that was never written returns the *)
(* default-constructed value, also when the read itself materialises the   *)
(* page and when other indices of the page were written.                   *)
(***************************************************************************)
C2_NeverWrittenReadsDefault ==
  (~ever /\ pc = "live" /\ tracked < Size) =>
    /\ ReadsTracked = DefaultT
    /\ JustRead(tracked) => ret.val = DefaultT

C2_Witness ==
  /\ ~ever
  /\ JustRead(tracked)
  /\ ret.val = DefaultT
  /\ \E k \in 1..PageSize : mem[PageToDataPtrs[TrackedPage + 1]][k] # DefaultT

(***************************************************************************)
(* C3: on a fresh container whose resize targets never decrease, size() is  *)
(* the last target, capacity() is a multiple of PageSize and capacity() is *)
(* at least size().                                                        *)
(***************************************************************************)
C3_MonotoneResize ==
  /\ size = target
  /\ capacity % PageSize = 0
  /\ capacity >= size

C3_Witness ==
  /\ last = "resize"
  /\ target = MaxSize
  /\ MaterialisedPages # {}
  /\ ~Materialised(Len(PageToDataPtrs) - 1)

MaterialisesLastPartialPage ==
  /\ Size % PageSize # 0
  /\ Size' = Size
  /\ Len(PageToDataPtrs') = Len(PageToDataPtrs)
  /\ PageToDataPtrs[Len(PageToDataPtrs)] = InvalidPage
  /\ PageToDataPtrs'[Len(PageToDataPtrs)] # InvalidPage

PageElements(p) == mem[PageToDataPtrs[p + 1]]

C6_ShrinkReleasesPage ==
  /\ (shrunk.phase = 1 /\ last = "resize") =>
       /\ Called("destroy") # {}
       /\ Called("Deallocate") = {k + 1 : k \in Called("destroy")}
       /\ \A k \in Called("destroy") : calls[k][3] = calls[k + 1][3]
  /\ shrunk.phase \in {1, 2} =>
       /\ ~Materialised(TrackedPage)
       /\ iter.active => \A k \in 1..Len(visited) :
                            visited[k] \div PageSize # TrackedPage
  /\ (shrunk.phase = 3 /\ Accessed) =>
       /\ Materialised(TrackedPage)
       /\ CalledOn("Allocate", PageToDataPtrs[TrackedPage + 1])
       /\ CalledOn("construct", PageToDataPtrs[TrackedPage + 1])
       /\ last = "read" =>
            /\ \A k \in 1..PageSize : PageElements(TrackedPage)[k] = DefaultT
            /\ JustRead(tracked) => ret.val = DefaultT
       /\ last = "write" =>
            Cardinality({k \in 1..PageSize :
                           PageElements(TrackedPage)[k] # DefaultT}) <= 1

C6_Witness ==
  /\ shrunk.phase = 3
  /\ shrunk.lost = MaxVal
  /\ JustRead(tracked)
  /\ ret.val = DefaultT

(***************************************************************************)
(* C7: a shrink to a size inside a materialised page keeps that page whole: *)
(* no element of it is destructed, and after growing back within the page  *)
(* a read returns the value written before the shrink, with no allocation  *)
(* and no construction.                                                    *)
(***************************************************************************)
C7_ShrinkInsidePageKeepsIt ==
  stale # NoValue =>
    /\ Materialised(TrackedPage)
    /\ TrackedElement = stale
    /\ ~CalledOn("destroy", PageToDataPtrs[TrackedPage + 1])
    /\ JustRead(tracked) => ret.val = stale /\ calls = <<>>

C7_Witness ==
  /\ JustRead(tracked)
  /\ expect = NoValue
  /\ stale = MaxVal
  /\ ret.val = MaxVal
  /\ calls = <<>>

(***************************************************************************)
(* C8: after clear() the container and its allocator are in the state a    *)
(* constructor leaves them in, so that whatever follows behaves as on a    *)
(* new container: no page is materialised and no block of it is live.      *)
(***************************************************************************)
C8_ClearGivesFreshContainer ==
  last = "clear" =>
    /\ [Cur EXCEPT !.log = <<>>] = [Fresh(Allocator.int) EXCEPT !.log = <<>>]
    /\ MaterialisedCount(Size, PageToDataPtrs) = 0
    /\ MaterialisedBegin(Size, PageToDataPtrs)
         = MaterialisedEnd(Size, PageToDataPtrs)

C8_Witness ==
  /\ last = "clear"
  /\ Cardinality(Called("destroy")) > 1
  /\ Allocator.int

(***************************************************************************)
(* C9: clear() leaves Size = 0 and an empty page table, and a second       *)
(* clear() changes nothing and destructs and deallocates no page.          *)
(***************************************************************************)
C9_ClearEmptiesAndIsIdempotent ==
  last = "clear" =>
    /\ Size = 0
    /\ PageToDataPtrs = <<>>
    /\ capacity = 0
    /\ empty
    /\ MaterialisedPages = {}
    /\ LET again == Clear(Cur)
       IN  /\ [again EXCEPT !.log = <<>>] = Cur
           /\ \A k \in 1..Len(again.log) :
                again.log[k][1] \notin {"destroy", "Deallocate"}

C9_Witness ==
  /\ last = "clear"
  /\ Called("destroy") # {}
  /\ Called("Deallocate") # {}
  /\ Clear(Cur).log = <<>>

(***************************************************************************)
(* C10: a container bound to the caller's allocator never resets it and    *)
(* never deletes it; it deallocates only blocks of its own, so the blocks  *)
(* of the allocator's other user stay live and untouched, and the          *)
(* allocator serves a second container after the first is destroyed.       *)
(***************************************************************************)
C10_BorrowedAllocatorSurvives ==
  /\ alloc["ext"].alive
  /\ \A k \in 1..Len(calls) :
       calls[k][2] = "ext" =>
         /\ calls[k][1] \notin {"Reset", "delete", "new"}
         /\ calls[k][3] \notin foreign
  /\ foreign \subseteq alloc["ext"].live
  /\ \A b \in foreign : mem[b] = [k \in 1..PageSize |-> ForeignT]
  /\ \A p \in MaterialisedPages :
       /\ PageToDataPtrs[p + 1] \in alloc[Allocator.ptr].live \ foreign
       /\ Len(PageElements(p)) = PageSize

C10_Witness ==
  /\ reused
  /\ pc = "live"
  /\ ~Allocator.int
  /\ Cardinality(MaterialisedPages) > 1
  /\ Accessed

(***************************************************************************)
(* Steps of the operations, as seen from the states before and after.      *)
(***************************************************************************)
\* the step is V.resize(NewSize)
ResizeStep(NewSize) == last' = "resize" /\ target' = NewSize

\* the container and the heap after the step, with the calls the step made
After == [Size |-> Size', PT |-> PageToDataPtrs', A |-> Allocator',
          alloc |-> alloc', mem |-> mem', log |-> calls']

\* the step made the given call on block b
Calls(what, b) ==
  \E k \in 1..Len(calls') : calls'[k][1] = what /\ calls'[k][3] = b

\* the step made no call of the given kinds
NoCall(kinds) == \A k \in 1..Len(calls') : calls'[k][1] \notin kinds

(***************************************************************************)
(* C11: resize(0) does what clear() does: from every state it leaves the   *)
(* container, the allocator and the heap as clear() would (Size 0, empty   *)
(* page table), and makes the same destructions and allocator calls in the *)
(* same order.                                                             *)
(***************************************************************************)
C11_ResizeZeroIsClear ==
  [][ResizeStep(0) =>
       /\ After = Clear(Cur)
       /\ Size' = 0
       /\ PageToDataPtrs' = <<>>
       /\ \A p \in MaterialisedPages :
            Calls("destroy", PageToDataPtrs[p + 1])]_vars

C11_Witness ==
  /\ last = "resize"
  /\ target = 0
  /\ Size = 0
  /\ PageToDataPtrs = <<>>
  /\ Cardinality(Called("destroy")) > 1
  /\ Called("Reset") # {}

(***************************************************************************)
(* C12: resize(NewSize) with Size <= NewSize <= capacity() changes only    *)
(* Size: the page table, the contents of every page, the allocator and its *)
(* binding stay as they were, the call allocates, constructs, destroys and *)
(* deallocates nothing, and the same pages are materialised afterwards.    *)
(***************************************************************************)
C12_GrowWithinCapacityChangesOnlySize ==
  [][\A NewSize \in 0..MaxSize :
       (ResizeStep(NewSize) /\ Size <= NewSize /\ NewSize <= capacity) =>
         /\ Size' = NewSize
         /\ PageToDataPtrs' = PageToDataPtrs
         /\ mem' = mem
         /\ alloc' = alloc
         /\ Allocator' = Allocator
         /\ NoCall({"Allocate", "construct", "destroy", "Deallocate"})
         /\ NewSize > 0 => calls' = <<>>
         /\ MaterialisedPages' = MaterialisedPages]_vars

C12_Witness ==
  /\ resized = "within"
  /\ Size = capacity
  /\ Materialised(Len(PageToDataPtrs) - 1)
  /\ \E k \in 1..PageSize : PageElements(Len(PageToDataPtrs) - 1)[k] # DefaultT
  /\ calls = <<>>

(***************************************************************************)
(* C13: resize(NewSize) with 0 < NewSize < Size leaves Size = NewSize and  *)
(* a page table of exactly (NewSize - 1) / PageSize + 1 slots, so that     *)
(* capacity() is NewSize rounded up to a multiple of PageSize; every       *)
(* materialised page beyond page (NewSize - 1) / PageSize has its elements *)
(* destroyed and then its block deallocated, after which the block is not  *)
(* live and holds no element; nothing else is destroyed or deallocated.    *)
(***************************************************************************)
CeilPages(n) == (n + PageSize - 1) \div PageSize

ReleasedBy(NewSize) ==
  {PageToDataPtrs[p + 1] : p \in {q \in MaterialisedPages :
                                   q > (NewSize - 1) \div PageSize}}

C13_ShrinkTruncatesAndReleases ==
  [][\A NewSize \in 1..MaxSize :
       (ResizeStep(NewSize) /\ NewSize < Size) =>
         /\ Size' = NewSize
         /\ Len(PageToDataPtrs') = (NewSize - 1) \div PageSize + 1
         /\ capacity' = CeilPages(NewSize) * PageSize
         /\ \A b \in ReleasedBy(NewSize) :
              /\ \E k \in 1..(Len(calls') - 1) :
                   /\ calls'[k] = <<"destroy", Allocator.ptr, b>>
                   /\ calls'[k + 1] = <<"Deallocate", Allocator.ptr, b>>
              /\ b \notin alloc'[Allocator.ptr].live
              /\ mem'[b] = <<>>
         /\ Len(calls') = 2 * Cardinality(ReleasedBy(NewSize))
         /\ NoCall({"Allocate", "construct", "Reset"})]_vars

C13_Witness ==
  /\ resized = "shrink"
  /\ Size = PageSize
  /\ capacity = PageSize
  /\ Materialised(0)
  /\ Called("destroy") # {}
  /\ Called("Deallocate") # {}
  /\ Cardinality(alloc[Allocator.ptr].live \ foreign) = 1

(***************************************************************************)
(* C14: in every reachable state the page table has exactly                *)
(* ceil(Size / PageSize) slots, so that capacity() is the number of slots  *)
(* times PageSize, capacity() >= Size and capacity() - Size < PageSize.    *)
(***************************************************************************)
C14_PageTableCoversSize ==
  /\ Len(PageToDataPtrs) = CeilPages(Size)
  /\ capacity = Len(PageToDataPtrs) * PageSize
  /\ capacity >= Size
  /\ capacity - Size < PageSize

C14_Witness ==
  /\ Accessed
  /\ shrunk.phase = 3
  /\ Size % PageSize # 0
  /\ Len(PageToDataPtrs) > 1
  /\ capacity - Size = PageSize - 1

(***************************************************************************)
(* C15: operator[] allocates and constructs a page exactly when the slot   *)
(* of the index holds the sentinel (the index followed is tracked, which   *)
(* is any index).  The first access to a page makes one                    *)
(* Allocate call, for a block that was not live, constructs PageSize       *)
(* elements in it and stores it in that slot; an access to a page that is  *)
(* materialised makes no call, leaves the slot and the allocator as they   *)
(* were, and returns an element of that page.                              *)
(***************************************************************************)
\* the step is an access V[tracked], read or written
AccessesTracked == last' \in {"read", "write"} /\ ret'.idx = tracked

LiveBlocks == UNION {alloc[a].live : a \in AllocNames}

C15_AllocatesIffSentinel ==
  [][AccessesTracked =>
       LET slot == tracked \div PageSize + 1
           Page == PageToDataPtrs'[slot]
       IN  /\ Page # InvalidPage
           /\ Len(mem'[Page]) = PageSize
           /\ last' = "read" =>
                ret'.val = mem'[Page][(tracked % PageSize) + 1]
           /\ IF PageToDataPtrs[slot] = InvalidPage
              THEN /\ calls' = <<<<"Allocate", Allocator.ptr, Page>>,
                                 <<"construct", Allocator.ptr, Page>>>>
                   /\ Page \notin LiveBlocks
                   /\ alloc'[Allocator.ptr].live
                        = alloc[Allocator.ptr].live \cup {Page}
              ELSE /\ calls' = <<>>
                   /\ Page = PageToDataPtrs[slot]
                   /\ alloc' = alloc]_vars

C15_Witness ==
  /\ JustRead(tracked)
  /\ calls = <<>>
  /\ ever
  /\ ret.val = MaxVal
  /\ Cardinality(MaterialisedPages) = Len(PageToDataPtrs)
  /\ Len(PageToDataPtrs) > 1

(***************************************************************************)
(* C16: on a container that is not modified meanwhile, the position        *)
(* materialised_begin() returns and every position operator++ gives from a *)
(* position that is not the end is Size or an index below Size whose page  *)
(* is materialised; the assertions of operator* (on a position that is not *)
(* the end) and of operator== (on any two such positions) hold.            *)
(***************************************************************************)
ValidPosition(ElementIdx) ==
  \/ ElementIdx = Size
  \/ ElementIdx < Size /\ Materialised(ElementIdx \div PageSize)

ValidPositions == {i \in 0..MaxSize : ValidPosition(i)}

C16_PositionsAreValid ==
  /\ ValidPosition(MaterialisedBegin(Size, PageToDataPtrs))
  /\ ValidPosition(MaterialisedEnd(Size, PageToDataPtrs))
  /\ \A i \in ValidPositions :
       /\ EqualityAsserts(Size, PageToDataPtrs, i)
       /\ ~Equality(i, MaterialisedEnd(Size, PageToDataPtrs)) =>
            /\ DereferenceAsserts(Size, PageToDataPtrs, i)
            /\ ValidPosition(PreIncrement(Size, PageToDataPtrs, i))
       /\ \A j \in ValidPositions : Equality(i, j) <=> i = j
  /\ iter.active =>
       /\ ValidPosition(iter.idx)
       /\ \A k \in 1..Len(visited) :
            DereferenceAsserts(Size, PageToDataPtrs, visited[k])

C16_Witness ==
  /\ iter.active
  /\ last = "++"
  /\ iter.idx = Size
  /\ Size % PageSize # 0
  /\ ~Materialised(Len(PageToDataPtrs) - 1)
  /\ visited # <<>>

(***************************************************************************)
(* C17: materialised_begin() is at the first index p * PageSize of the     *)
(* lowest materialised page p with p * PageSize < Size, and at Size, where *)
(* materialised_end() is, when there is no such page: at Size for a        *)
(* container resized with nothing touched, at 0 for an empty one.          *)
(***************************************************************************)
BeginPages == {p \in MaterialisedPages : p * PageSize < Size}

FirstMaterialisedIndex ==
  IF BeginPages # {} THEN Min(BeginPages) * PageSize ELSE Size

C17_BeginIsFirstMaterialised ==
  /\ MaterialisedBegin(Size, PageToDataPtrs) = FirstMaterialisedIndex
  /\ BeginPages = {} =>
       Equality(MaterialisedBegin(Size, PageToDataPtrs),
                MaterialisedEnd(Size, PageToDataPtrs))
  /\ MaterialisedPages = {} => MaterialisedBegin(Size, PageToDataPtrs) = Size
  /\ Size = 0 => MaterialisedBegin(Size, PageToDataPtrs) = 0
  /\ last = "begin" => iter.idx = FirstMaterialisedIndex

C17_Witness ==
  /\ last = "begin"
  /\ iter.idx = PageSize
  /\ ~Materialised(0)
  /\ Materialised(1)
  /\ iter.idx < Size

(***************************************************************************)
(* C18: resize(NewSize) with NewSize > capacity() sets Size = NewSize and  *)
(* extends the page table to exactly ceil(NewSize / PageSize) slots: each  *)
(* slot there was keeps its value, each added slot holds the sentinel, and *)
(* nothing is allocated or constructed ...                                 *)
(***************************************************************************)
ExtendsPageTable(NewSize) ==
  /\ Size' = NewSize
  /\ Len(PageToDataPtrs') = CeilPages(NewSize)
  /\ \A k \in 1..Len(PageToDataPtrs) : PageToDataPtrs'[k] = PageToDataPtrs[k]
  /\ \A k \in (Len(PageToDataPtrs) + 1)..Len(PageToDataPtrs') :
       PageToDataPtrs'[k] = InvalidPage
  /\ calls' = <<>>
  /\ mem' = mem
  /\ alloc' = alloc
  /\ Allocator' = Allocator
  /\ MaterialisedPages' = MaterialisedPages

\* the indices between Size and capacity() that the last page holds when it
\* is materialised
TailOfLastPage ==
  IF PageToDataPtrs # <<>> /\ Materialised(Len(PageToDataPtrs) - 1)
  THEN capacity - Size ELSE 0

C19_ResizeKeepsRetainedPages ==
  [][\A NewSize \in 1..MaxSize :
       ResizeStep(NewSize) =>
         \A p \in MaterialisedPages :
           p <= (NewSize - 1) \div PageSize =>
             /\ p < Len(PageToDataPtrs')
             /\ PageToDataPtrs'[p + 1] = PageToDataPtrs[p + 1]
             /\ mem'[PageToDataPtrs[p + 1]] = mem[PageToDataPtrs[p + 1]]
             /\ PageToDataPtrs[p + 1] \in alloc'[Allocator.ptr].live
             /\ ~Calls("destroy", PageToDataPtrs[p + 1])
             /\ ~Calls("Deallocate", PageToDataPtrs[p + 1])]_vars

C19_Witness ==
  /\ resized = "shrink"
  /\ Called("Deallocate") # {}
  /\ Size % PageSize # 0
  /\ Materialised(Len(PageToDataPtrs) - 1)
  /\ \A k \in 1..PageSize : PageElements(Len(PageToDataPtrs) - 1)[k] # DefaultT

(***************************************************************************)
(* C20: operator[] at index i (tracked, which is any index) leaves Size,   *)
(* the length of the page table, every slot other than slot i / PageSize   *)
(* and the contents of every other page as they were; slot i / PageSize    *)
(* changes only from the sentinel to a page, and besides it only the       *)
(* allocator and the page of i change.                                     *)
(***************************************************************************)
C20_AccessChangesOnlyItsSlot ==
  [][AccessesTracked =>
       LET slot == tracked \div PageSize + 1
       IN  /\ Size' = Size
           /\ Len(PageToDataPtrs') = Len(PageToDataPtrs)
           /\ \A k \in 1..Len(PageToDataPtrs) :
                k # slot => PageToDataPtrs'[k] = PageToDataPtrs[k]
           /\ PageToDataPtrs[slot] # InvalidPage =>
                PageToDataPtrs'[slot] = PageToDataPtrs[slot]
           /\ \A b \in Blocks :
                b # PageToDataPtrs'[slot] => mem'[b] = mem[b]
           /\ (last' = "read" /\ PageToDataPtrs[slot] # InvalidPage) =>
                mem' = mem
           /\ Allocator' = Allocator
           /\ \A a \in AllocNames :
                /\ alloc'[a].alive = alloc[a].alive
                /\ a # Allocator.ptr => alloc'[a] = alloc[a]]_vars

C20_Witness ==
  /\ Accessed
  /\ ret.idx = tracked
  /\ CalledOn("Allocate", PageToDataPtrs[TrackedPage + 1])
  /\ \E p \in MaterialisedPages :
       /\ p # TrackedPage
       /\ \A k \in 1..PageSize : PageElements(p)[k] # DefaultT

Deleted == IF Allocator.int THEN <<<<"delete", Allocator.ptr, 0>>>> ELSE <<>>

C22_DestructorClearsThenReleases ==
  [][/\ last' = "~PagedVector" =>
          /\ pc = "live" /\ pc' = "dead"
          /\ calls' = Clear(Cur).log \o Deleted
          /\ \A p \in MaterialisedPages :
               \E k \in 1..(Len(calls') - Len(Deleted)) :
                 calls'[k] = <<"destroy", Allocator.ptr, PageToDataPtrs[p + 1]>>
          /\ alloc'[Allocator.ptr].alive = ~Allocator.int
          /\ Allocator.int => alloc[Allocator.ptr].alive
          /\ MaterialisedPages' = {}
     /\ last' # "~PagedVector" => NoCall({"delete"})
     /\ (pc = "live" /\ pc' = "live") =>
          /\ Allocator' = Allocator
          /\ alloc'[Allocator.ptr].alive
          /\ alloc[Allocator.ptr].alive]_vars

C22_Witness ==
  /\ last = "~PagedVector"
  /\ pc = "dead"
  /\ Allocator.int
  /\ Cardinality(Called("destroy")) > 1
  /\ calls[Len(calls)][1] = "delete"
  /\ Cardinality(Called("delete")) = 1
  /\ ~alloc[Allocator.ptr].alive

(***************************************************************************)
(* C23: two threads in operator[] on indices of one unmaterialised page,   *)
(* with no synchronisation, can both find the sentinel and both allocate a *)
(* page for the slot.  The two blocks are distinct and both stay live;     *)
(* once both threads have stored, the slot holds the block stored last and *)
(* the other block is referenced by no slot; what a thread assigned        *)
(* through a block the slot does not hold is not what the container holds  *)
(* at its index, unless the other thread assigned the same value there.    *)
(***************************************************************************)
SlotOf(t) == PageOf(thr.at[t].Index) + 1

Allocated(t) == thr.at[t].NewPagePtr # InvalidPage

DoubleAllocated ==
  /\ Allocated(1)
  /\ Allocated(2)
  /\ SlotOf(1) = SlotOf(2)

\* thread t assigned through a block that its slot does not hold
LostWrite(t) ==
  /\ thr.at[t].pc = "done"
  /\ thr.at[t].ref # PageToDataPtrs[SlotOf(t)]

\* what the container holds at the index of thread t
Held(t) == mem[PageToDataPtrs[SlotOf(t)]][(thr.at[t].Index % PageSize) + 1]

C23_RaceDoubleAllocates ==
  /\ \A t \in Threads :
       Allocated(t) =>
         /\ thr.at[t].NewPagePtr \in alloc[Allocator.ptr].live \ foreign
         /\ Len(mem[thr.at[t].NewPagePtr]) = PageSize
         /\ CalledOn("Allocate", thr.at[t].NewPagePtr)
  /\ (Allocated(1) /\ Allocated(2)) =>
       /\ thr.at[1].NewPagePtr # thr.at[2].NewPagePtr
       /\ Cardinality(Called("Allocate")) = 2
  /\ (DoubleAllocated /\ Len(thr.stores) = 2) =>
       /\ PageToDataPtrs[SlotOf(1)] = thr.at[thr.stores[2]].NewPagePtr
       /\ \A k \in 1..Len(PageToDataPtrs) :
            PageToDataPtrs[k] # thr.at[thr.stores[1]].NewPagePtr
  /\ \A t \in Threads :
       LostWrite(t) =>
         /\ DoubleAllocated
         /\ \/ Held(t) = DefaultT
            \/ \E u \in Threads \ {t} :
                 /\ thr.at[u].pc = "done"
                 /\ thr.at[u].Index = thr.at[t].Index
                 /\ Held(t) = thr.at[u].v

C23_Witness ==
  /\ DoubleAllocated
  /\ \A t \in Threads : thr.at[t].pc = "done"
  /\ LostWrite(1)
  /\ thr.at[1].v = MaxVal
  /\ thr.at[1].Index # thr.at[2].Index
  /\ Held(1) = DefaultT
  /\ PageToDataPtrs[SlotOf(1)] = thr.at[2].NewPagePtr

(***************************************************************************)
(* C24: every page lives once.  The blocks of the container that are live  *)
(* are exactly the pages its table holds, each in one slot and constructed *)
(* in full.  A page leaves the table only in a step that destroys it, and  *)
(* a step that destroys a page destroys it once, releases it once (one     *)
(* Deallocate after the destroy, or the Reset of the owned allocator) and  *)
(* leaves it neither live nor constructed.  Deallocate is called only on a *)
(* page just destroyed, never on the sentinel.  After clear(), resize(0)   *)
(* and the destructor no page is in the table and no block of the          *)
(* container is live.                                                      *)
(***************************************************************************)
\* the live blocks of the bound allocator that are the container's
OwnLive ==
  IF alloc[Allocator.ptr].alive THEN alloc[Allocator.ptr].live \ foreign
  ELSE {}

PagesInTable ==
  {PageToDataPtrs[k] : k \in 1..Len(PageToDataPtrs)} \ {InvalidPage}

\* the call at position k of the step is made on one of the pages
OnPage(k) == calls'[k][1] \in {"destroy", "Deallocate"}

\* the step destroys block b
Destroys(b) ==
  \E k \in 1..Len(calls') : calls'[k] = <<"destroy", Allocator.ptr, b>>

\* the live blocks of the container are the pages of its table, each in one
\* slot and constructed in full
PagesAreLive ==
  /\ OwnLive = PagesInTable
  /\ \A k, l \in 1..Len(PageToDataPtrs) :
       (k # l /\ PageToDataPtrs[k] # InvalidPage) =>
         PageToDataPtrs[k] # PageToDataPtrs[l]
  /\ \A b \in PagesInTable : Len(mem[b]) = PageSize

\* what a step does to the pages
PageLifeStep ==
  /\ \/ UNCHANGED <<PageToDataPtrs, Allocator, alloc, mem, foreign>>
     \/ PagesAreLive'
  /\ \A k \in 1..Len(calls') :
       OnPage(k) =>
         /\ calls'[k][3] \in PagesInTable
         /\ calls'[k][2] = Allocator.ptr
         /\ \A l \in 1..Len(calls') :
              (l # k /\ calls'[l][1] = calls'[k][1]) =>
                calls'[l][3] # calls'[k][3]
         /\ calls'[k][1] = "destroy" =>
              /\ calls'[k][3] \notin OwnLive'
              /\ mem'[calls'[k][3]] = <<>>
              /\ \/ /\ k < Len(calls')
                    /\ calls'[k + 1] =
                         <<"Deallocate", Allocator.ptr, calls'[k][3]>>
                 \/ Allocator.int /\ ~NoCall({"Reset"})
         /\ calls'[k][1] = "Deallocate" =>
              /\ k > 1
              /\ calls'[k - 1] = <<"destroy", Allocator.ptr, calls'[k][3]>>
  /\ \/ PageToDataPtrs' = PageToDataPtrs
     \/ \A b \in PagesInTable : b \in PagesInTable' \/ Destroys(b)
  /\ (last' \in {"clear", "~PagedVector"} \/ ResizeStep(0)) =>
       /\ PageToDataPtrs' = <<>>
       /\ OwnLive' = {}
       /\ \A b \in PagesInTable : Destroys(b)

C24_EachPageDestroyedAndReleasedOnce == PagesAreLive /\ [][PageLifeStep]_vars

C24_Witness ==
  /\ last = "clear"
  /\ ~Allocator.int
  /\ reused
  /\ shrunk.phase = 0
  /\ ever
  /\ Cardinality(Called("Deallocate")) > 1
  /\ Cardinality({calls[k][3] : k \in Called("Deallocate")})
       = Cardinality(Called("Deallocate"))
  /\ alloc[Allocator.ptr].live = foreign

(***************************************************************************)
(* C25: the assertions hold wherever they are reached.  In every reachable *)
(* state, each Index below Size has its page inside the page table (the    *)
(* second assertion of operator[]), and each resize to a size above the    *)
(* capacity reaches its assertion with more pages to hold than the page    *)
(* table has slots.                                                        *)
(***************************************************************************)
\* resize(NewSize), NewSize > 0: the container where the capacity is tested
AtCapacityTest(NewSize) ==
  LET s1 == IF NewSize < Size THEN Shrink(Cur, NewSize) ELSE Cur
  IN  [s1 EXCEPT !.Size = NewSize]

C25_AssertionsHold ==
  /\ \A Index \in 0..(Size - 1) : SubscriptAssert(PageToDataPtrs, Index)
  /\ \A NewSize \in 1..(MaxSize + PageSize) :
       LET s == AtCapacityTest(NewSize)
       IN  s.Size > Capacity(s.PT) => GrowAssert(s)

C25_Witness ==
  /\ last = "resize"
  /\ resized = "beyond"
  /\ reused
  /\ Size % PageSize # 0
  /\ Len(PageToDataPtrs) > 1
  /\ Materialised(0)
  /\ ~Materialised(Len(PageToDataPtrs) - 1)
  /\ GrowAssert([Cur EXCEPT !.Size = Capacity(PageToDataPtrs) + 1])

(***************************************************************************)
(* C26: a traversal ends.  materialised_begin() gives an index of at most  *)
(* Size; each operator++ made on a position that is not the end strictly   *)
(* increases the index and leaves it at most Size; both read the page      *)
(* table only at slots it has.  When the loop is run to its end, every     *)
(* traversal begun reaches materialised_end() and is over.                 *)
(***************************************************************************)
\* the loop  for (; MI != V.materialised_end(); ++MI)  is run, not abandoned
SpecTraversal == SpecFixed /\ WF_vars(Increment) /\ WF_vars(Finish)

Slots == 0..(Len(PageToDataPtrs) - 1)

TraversalStep ==
  /\ last' = "begin" =>
       /\ iter'.idx <= Size
       /\ MaterialisedBeginReads(Size, PageToDataPtrs) \subseteq Slots
  /\ last' = "++" =>
       /\ iter'.idx > iter.idx
       /\ iter'.idx <= Size
       /\ PreIncrementReads(Size, PageToDataPtrs, iter.idx) \subseteq Slots
  /\ last' = "end" => iter.idx = Size /\ Len(visited) <= Size

C26_TraversalTerminates ==
  /\ [][TraversalStep]_vars
  /\ iter.active ~> ~iter.active

C26_Witness ==
  /\ last = "++"
  /\ iter.active
  /\ iter.idx = MaterialisedEnd(Size, PageToDataPtrs)
  /\ Size % PageSize # 0
  /\ Len(visited) > 1
  /\ Len(PageToDataPtrs) > 1
  /\ ~Materialised(Len(PageToDataPtrs) - 1)

(***************************************************************************)
(* The earlier version of the container, which only expands: expand, at,   *)
(* clear, materialisedBegin, and the operator++ of its iterator.  It keeps *)
(* the same fields; the page table is named PageToDataIdx there.           *)
(***************************************************************************)
\* expand(NewSize)
Expand(s, NewSize) ==
  IF NewSize <= s.Size THEN s
  ELSE IF NewSize <= Capacity(s.PT) THEN [s EXCEPT !.Size = NewSize]
  ELSE [s EXCEPT !.PT = VecResize(s.PT, PagesFor(NewSize), InvalidPage),
                 !.Size = NewSize]

\* clear(): Deallocate is called on every slot of the table, the sentinel
\* included, and no element is destroyed
RECURSIVE OldClearLoop(_, _)
OldClearLoop(s, I) ==
  IF I > Len(s.PT) THEN s
  ELSE LET Page == s.PT[I]
           s1 == IF PageIsInvalid(Page)
                 THEN [s EXCEPT !.log = Append(@, <<"Deallocate", s.A.ptr, Page>>)]
                 ELSE Deallocate(s, Page)
       IN  OldClearLoop(s1, I + 1)

OldClear(s) ==
  LET s0 == [s EXCEPT !.Size = 0]
      s1 == IF s0.A.int THEN Reset(s0) ELSE OldClearLoop(s0, 1)
  IN  [s1 EXCEPT !.PT = <<>>]

\* materialisedBegin(): the scan goes one element at a time
RECURSIVE OldMaterialisedBegin(_, _, _)
OldMaterialisedBegin(Sz, pt, ElementIdx) ==
  IF ElementIdx < Sz /\ PageIsInvalid(pt[PageOf(ElementIdx) + 1])
  THEN OldMaterialisedBegin(Sz, pt, ElementIdx + 1)
  ELSE ElementIdx

\* What a read of slot gives to the test against invalidPage(): the slot's
\* value, or anything at all when the table has no such slot.
ReadIsInvalid(pt, slot) ==
  IF slot < Len(pt) THEN {PageIsInvalid(pt[slot + 1])} ELSE BOOLEAN

\* operator++: the runs it can make from ElementIdx, each with the index it
\* ends at and the slots of the page table it read
RECURSIVE OldPreIncrement(_, _, _, _)
OldPreIncrement(Sz, pt, ElementIdx, reads) ==
  IF ElementIdx < Sz
  THEN LET Idx1 == ElementIdx + 1
           seen == reads \cup {PageOf(Idx1)}
       IN  UNION {IF invalid THEN OldPreIncrement(Sz, pt, Idx1, seen)
                  ELSE {[idx |-> Idx1, reads |-> seen]} :
                  invalid \in ReadIsInvalid(pt, PageOf(Idx1))}
  ELSE {[idx |-> ElementIdx, reads |-> reads]}

InitOld == InitFixed

OldFrame ==
  /\ UNCHANGED <<pc, reused, foreign, thr, resized>>
  /\ UNCHANGED hvars

\* V.expand(NewSize)
DoExpand(NewSize) ==
  /\ Idle
  /\ Commit(Expand(Cur, NewSize))
  /\ last' = "expand"
  /\ ret' = NoRet
  /\ UNCHANGED <<iter, visited>>
  /\ OldFrame

\* V.at(Index) = v
At(Index, v) ==
  /\ Idle
  /\ Index < Size
  /\ LET s == Subscript(Cur, Index)
     IN  Commit([s EXCEPT !.mem[s.PT[PageOf(Index) + 1]][(Index % PageSize) + 1] = v])
  /\ last' = "at"
  /\ ret' = NoRet
  /\ UNCHANGED <<iter, visited>>
  /\ OldFrame

\* V.clear()
DoOldClear ==
  /\ Idle
  /\ Commit(OldClear(Cur))
  /\ last' = "clear"
  /\ ret' = NoRet
  /\ UNCHANGED <<iter, visited>>
  /\ OldFrame

\* auto MI = V.materialisedBegin()
OldBegin ==
  /\ Idle
  /\ iter' = [active |-> TRUE,
              idx |-> OldMaterialisedBegin(Size, PageToDataPtrs, 0)]
  /\ visited' = <<>>
  /\ last' = "begin"
  /\ ret' = NoRet
  /\ calls' = <<>>
  /\ UNCHANGED cvars
  /\ OldFrame

\* ++MI, on a position that is not materialisedEnd()
OldIncrement ==
  /\ iter.active
  /\ iter.idx # Size
  /\ \E run \in OldPreIncrement(Size, PageToDataPtrs, iter.idx, {}) :
       /\ iter' = [iter EXCEPT !.idx = run.idx]
       /\ visited' = Append(visited, iter.idx)
  /\ last' = "++"
  /\ ret' = NoRet
  /\ UNCHANGED cvars
  /\ UNCHANGED calls
  /\ OldFrame

\* the traversal reached materialisedEnd(); the iterator goes away
OldFinish ==
  /\ iter.active
  /\ iter.idx = Size
  /\ iter' = NoIter
  /\ visited' = <<>>
  /\ last' = "end"
  /\ ret' = NoRet
  /\ UNCHANGED cvars
  /\ UNCHANGED calls
  /\ OldFrame

NextOld ==
  \/ \E NewSize \in 0..MaxSize : DoExpand(NewSize)
  \/ \E Index \in 0..(MaxSize - 1), v \in Values : At(Index, v)
  \/ DoOldClear
  \/ OldBegin
  \/ OldIncrement
  \/ OldFinish

SpecOld == InitOld /\ [][NextOld]_vars

(***************************************************************************)
(* C27: in the earlier version, operator++ made on a position that is not  *)
(* the end reads the page table only at slots the table has.               *)
(***************************************************************************)
C27_OldIncrementReadsInsideTable ==
  [][last' = "++" =>
       \A run \in OldPreIncrement(Size, PageToDataPtrs, iter.idx, {}) :
         run.reads \subseteq Slots]_vars

\* the traversal of a container filled to its capacity stands on the last
\* element: the next operator++ reads slot Len(PageToDataIdx)
C27_Witness ==
  /\ iter.active
  /\ Size = capacity
  /\ iter.idx = Size - 1
  /\ Size > PageSize
  /\ \A p \in Slots : Materialised(p)
  /\ \E run \in OldPreIncrement(Size, PageToDataPtrs, iter.idx, {}) :
       Len(PageToDataPtrs) \in run.reads

====
